---- MODULE Spec2Model ----
(***************************************************************************)
(* Transaction custody and signing hand-off of the MoveFlow Aptos MCP      *)
(* server: the pending-transaction map of ClientProvidedSigningService,    *)
(* its periodic cleanup task, the tool handlers that prepare or execute a  *)
(* transaction (handleTransactionSubmission), the submit-signed-transaction*)
(* tool, the adapter gate of adaptToolForServer, the configuration the     *)
(* signing mode is derived from, and the TransactionProxyService the       *)
(* adapter hands transaction objects to.                                   *)
(*                                                                         *)
(* Time is the value of Date.now() in milliseconds, counted from the       *)
(* construction of the signing service.  The external SDK is a black box:  *)
(* each of its calls is a suspension point of the calling handler and      *)
(* answers (or throws) in a later step.                                    *)
(***************************************************************************)
EXTENDS Integers, FiniteSets, Sequences, TLC

VARIABLES
    env,                  \* process.env, fixed when the process starts
    signerAccount,        \* aptos.ts: the account made from APTOS_PRIVATE_KEY, or "none"
    now,                  \* Date.now()
    nextSweep,            \* when the cleanup interval timer is due next
    ticks,                \* how often the clock has advanced
    pendingTransactions,  \* the service's Map: id -> [transaction, timestamp]
    calls,                \* the calls suspended on the SDK, one slot per caller
    last,                 \* what the most recent step was and what it answered
    evicted,              \* ids the cleanup task removed (since the id was last put)
    submitted,            \* ids whose completion returned a result (since last put)
    nreq,                 \* tool requests that got as far as a built transaction
    alive,                \* the Node process is running
    proxyPending,         \* TransactionProxyService's Map: id -> [transaction, resolver, timestamp]
    proxyTimers,          \* the setTimeout timers submitTransaction started
    proxyNextSweep,       \* when the proxy's cleanup interval timer is due next
    resolverCalls,        \* per resolver, what it was called with, in order
    proxyHandled          \* proxy ids that were resolved (since the id was last put)

\* the state of the signing service and of the tool handlers
serviceVars == <<env, signerAccount, now, nextSweep, ticks, pendingTransactions,
                 calls, last, evicted, submitted, nreq>>

\* the state of the TransactionProxyService singleton
proxyVars == <<proxyPending, proxyTimers, proxyNextSweep, resolverCalls, proxyHandled>>

vars == <<env, signerAccount, now, nextSweep, ticks, pendingTransactions,
          calls, last, evicted, submitted, nreq, alive, proxyPending,
          proxyTimers, proxyNextSweep, resolverCalls, proxyHandled>>

(* ------------------------------ bounds --------------------------------- *)

\* number of times the clock advances
MaxTicks == 2
\* number of distinct values of the random part of a transaction id
MaxRandom == 1
\* number of tool requests that get as far as a built transaction
MaxRequests == 2

(* -------------------------- program constants -------------------------- *)

CLEANUP_INTERVAL == 60000
MAX_TX_AGE == 600000

\* the concurrent in-flight calls (submitSignedTransaction / direct signing)
Callers == {1, 2}

\* the clock is observed each time another maximum age has gone by: an entry
\* is then exactly as old as the maximum age, or older
TickSteps == {MAX_TX_AGE}

(* ----------------------------- configuration --------------------------- *)

\* process.env as read by getTransactionExecutorConfig
ReadOnlyValues == {"true", "false"}
SigningModeValues == {"direct", "client"}
PrivateKeyValues == {"unset", "valid", "malformed"}

Envs == [READ_ONLY_MODE : ReadOnlyValues,
         SIGNING_MODE : SigningModeValues,
         APTOS_PRIVATE_KEY : PrivateKeyValues]

\* every value the three variables are given in the configuration's own
\* check: other spellings, an unset variable ("unset" stands for undefined)
\* and the empty string
ReadOnlyInputs == {"true", "false", "TRUE", "1", "unset"}
SigningModeInputs == {"direct", "DIRECT", "Direct", "client", "other", "unset"}
PrivateKeyInputs == {"unset", "", "valid", "malformed"}

ConfigEnvs == [READ_ONLY_MODE : ReadOnlyInputs,
               SIGNING_MODE : SigningModeInputs,
               APTOS_PRIVATE_KEY : PrivateKeyInputs]

\* a truthy private key string
HasPrivateKey(e) == e.APTOS_PRIVATE_KEY \notin {"unset", ""}

\* a conversion that leaves the string as it is
toLowerCaseIdentity(str) == str

\* process.env.SIGNING_MODE?.toLowerCase(), on the strings above
toLowerCase(str) ==
    CASE str = "DIRECT" -> "direct"
      [] str = "Direct" -> "direct"
      [] str = "TRUE" -> "true"
      [] OTHER -> str

getTransactionExecutorConfig(e) ==
    LET readOnlyMode == (e.READ_ONLY_MODE = "true")
        configuredSigningMode == toLowerCase(e.SIGNING_MODE)
        signingMode == IF configuredSigningMode = "direct" THEN "direct" ELSE "client"
    IN  IF signingMode = "direct" /\ ~HasPrivateKey(e) /\ ~readOnlyMode
        THEN [readOnlyMode |-> readOnlyMode, signingMode |-> "client",
              privateKey |-> e.APTOS_PRIVATE_KEY]
        ELSE [readOnlyMode |-> readOnlyMode,
              signingMode |-> IF readOnlyMode THEN "client" ELSE signingMode,
              privateKey |-> e.APTOS_PRIVATE_KEY]

\* initAptos: the signer account is created whenever a key is configured and
\* parses; a key that fails to parse is logged and leaves the account null
initSignerAccount(e) ==
    LET txConfig == getTransactionExecutorConfig(e)
    IN  IF txConfig.privateKey = "valid" THEN "account" ELSE "none"

\* a gate that lets every request through
canExecuteTransactionAlways(executeFlag) ==
    [canExecute |-> TRUE, errorMessage |-> ""]

canExecuteTransaction(executeFlag) ==
    LET config == getTransactionExecutorConfig(env)
    IN  IF executeFlag /\ config.readOnlyMode
        THEN [canExecute |-> FALSE, errorMessage |-> "read-only mode"]
        ELSE [canExecute |-> TRUE, errorMessage |-> ""]

(* --------------------------- values and shapes ------------------------- *)

\* the state-mutating tools, by the shape of their handler: create-stream
\* (the single-stream tools share its handler body) and batch-create-streams,
\* which validates its arrays before anything else
Tools == {"create-stream", "batch-create-streams"}

\* a transaction id is `tx_${Date.now()}_${randomPart}`
NoId == <<0, 0>>
\* an id no put has ever returned (the random part is never 0)
UnknownId == <<1, 0>>

\* a transaction object as the SDK builds it, one new object per request (n
\* numbers the objects): either a SimpleTransaction or an object that carries
\* the transaction under .payload
NoTx == [n |-> 0, wrapped |-> FALSE]
BuiltTx(n, w) == [n |-> n, wrapped |-> w]

\* normalizeTransaction: an object with .payload and no encode() is unwrapped
normalizeTransaction(t) ==
    IF t.wrapped THEN [n |-> t.n, wrapped |-> FALSE] ELSE t

\* signature packets: well-formed, or with one of the three fields empty
GoodPacket == [signature |-> "0xab", public_key |-> "0xab", sender |-> "0xab"]
Packets == {GoodPacket,
            [GoodPacket EXCEPT !.signature = ""],
            [GoodPacket EXCEPT !.public_key = ""],
            [GoodPacket EXCEPT !.sender = ""]}

\* a packet check that lets every packet through
PacketNeverInvalid(p) == FALSE

\* !signature || !public_key || !sender
PacketInvalid(p) == p.signature = "" \/ p.public_key = "" \/ p.sender = ""

\* what waitForTransaction resolves to: a committed transaction that ran, one
\* that failed in the VM, and a response without success, version, vm_status
\* and gas_used
SdkResults == {[hash |-> "0xh", success |-> "true", detail |-> TRUE],
               [hash |-> "0xh", success |-> "false", detail |-> TRUE],
               [hash |-> "0xh", success |-> "undefined", detail |-> FALSE]}

IdleCall == [pc |-> "idle", kind |-> "none", id |-> NoId, tx |-> NoTx]

InFlight(c) == calls[c].pc # "idle"

\* Map.get / Map.has on pendingTransactions
Has(id) == id \in DOMAIN pendingTransactions

\* a delete that removes nothing
MapDeleteNothing(m, k) == m

\* Map.set and Map.delete
MapSet(m, k, v) == (k :> v) @@ m
MapDelete(m, k) == [x \in (DOMAIN m) \ {k} |-> m[x]]

\* generateTransactionId
generateTransactionId(r) == <<now, r>>

\* an age test with twice the maximum age
IsExpiredLate(timestamp, t) == t - timestamp > 2 * MAX_TX_AGE

\* an age test that also takes an entry exactly as old as the maximum age
IsExpiredAtMaxAge(timestamp, t) == t - timestamp >= MAX_TX_AGE

\* the age test of the cleanup task
IsExpired(timestamp, t) == t - timestamp > MAX_TX_AGE

\* a status that reports the clock instead of the age
getPendingTransactionReportsClock(id) ==
    IF ~Has(id) THEN [found |-> FALSE]
    ELSE [found |-> TRUE, transaction |-> pendingTransactions[id].transaction,
          age |-> now]

\* getPendingTransaction
getPendingTransaction(id) ==
    IF ~Has(id) THEN [found |-> FALSE]
    ELSE [found |-> TRUE, transaction |-> pendingTransactions[id].transaction,
          age |-> now - pendingTransactions[id].timestamp]

(* ------------------------------- Init ---------------------------------- *)

Init ==
    /\ env \in Envs
    /\ signerAccount = initSignerAccount(env)
    /\ now = 0
    /\ nextSweep = CLEANUP_INTERVAL
    /\ ticks = 0
    /\ pendingTransactions = <<>>
    /\ calls = [c \in Callers |-> IdleCall]
    /\ last = [op |-> "start"]
    /\ evicted = {}
    /\ submitted = {}
    /\ nreq = 0
    /\ alive = TRUE
    /\ proxyPending = <<>>
    /\ proxyTimers = {}
    /\ proxyNextSweep = CLEANUP_INTERVAL
    /\ resolverCalls = [n \in 1..MaxRequests |-> <<>>]
    /\ proxyHandled = {}

(* ------------------- tool handlers: prepare or execute ----------------- *)

\* a new suspended call takes the lowest free slot
FreeSlot(c) == /\ ~InFlight(c)
               /\ \A d \in Callers : d < c => InFlight(d)

\* a submission helper that stores every transaction for the client to sign
RequestRouteAlwaysDefers(tool, execute, adapted, lengthsOk) ==
    IF adapted /\ ~canExecuteTransaction(TRUE).canExecute THEN "adapter-read-only"
    ELSE IF tool = "batch-create-streams" /\ ~lengthsOk THEN "length-mismatch"
    ELSE IF ~canExecuteTransaction(execute).canExecute THEN "read-only"
    ELSE "defer"

\* a submission helper that signs whenever a signer account exists
RequestRouteSignsWithAccount(tool, execute, adapted, lengthsOk) ==
    IF adapted /\ ~canExecuteTransaction(TRUE).canExecute THEN "adapter-read-only"
    ELSE IF tool = "batch-create-streams" /\ ~lengthsOk THEN "length-mismatch"
    ELSE IF ~canExecuteTransaction(execute).canExecute THEN "read-only"
    ELSE IF signerAccount # "none" THEN "direct"
    ELSE "defer"

\* The path one tool request takes through adaptToolForServer's handler (when
\* the request comes through the adapted tool: no tool object carries an
\* execute property, so the gate is canExecuteTransaction(undefined !== false)),
\* the tool handler and handleTransactionSubmission.  The signing service is
\* always a ClientProvidedSigningService, so with execute set and no signer
\* account the transaction is stored with execute = false.
RequestRoute(tool, execute, adapted, lengthsOk) ==
    IF adapted /\ ~canExecuteTransaction(TRUE).canExecute THEN "adapter-read-only"
    ELSE IF tool = "batch-create-streams" /\ ~lengthsOk THEN "length-mismatch"
    ELSE IF ~canExecuteTransaction(execute).canExecute THEN "read-only"
    ELSE IF execute /\ signerAccount # "none" THEN "direct"
    ELSE "defer"

\* What adaptToolForServer's handler does with a handler result that is a
\* transaction object (one with .submit, .rawTransaction or .payload): sign
\* it with the server's account, answer that direct signing failed for want of
\* a key, or hand it to the proxy service for the client to sign.
AdapterSigningBranch ==
    LET txConfig == getTransactionExecutorConfig(env)
    IN  IF txConfig.signingMode = "direct" /\ ~txConfig.readOnlyMode
        THEN IF signerAccount = "none" THEN "direct-signing-failed" ELSE "direct"
        ELSE "proxy"

\* only batch-create-streams takes arrays whose lengths may disagree
LengthInputs(tool) == IF tool = "batch-create-streams" THEN BOOLEAN ELSE {TRUE}

\* what signAndSubmitTransaction(transaction, false) returns
DeferResponse(id, tx) ==
    [transactionId |-> id, rawTxn |-> normalizeTransaction(tx),
     clientSigningRequired |-> TRUE]

\* signAndSubmitTransaction(transaction, false): pendingTransactions.set
Put(id, tx) ==
    /\ pendingTransactions' =
          MapSet(pendingTransactions, id,
                 [transaction |-> normalizeTransaction(tx), timestamp |-> now])
    /\ evicted' = evicted \ {id}
    /\ submitted' = submitted \ {id}

ToolRequest ==
    \E tool \in Tools, execute \in BOOLEAN, adapted \in BOOLEAN,
       w \in BOOLEAN, r \in 1..MaxRandom :
     \E lengthsOk \in LengthInputs(tool) :
      LET route == RequestRoute(tool, execute, adapted, lengthsOk)
          tx == BuiltTx(nreq + 1, w)
          id == generateTransactionId(r)
      IN  /\ CASE route = "defer" ->
                    /\ nreq < MaxRequests
                    /\ nreq' = nreq + 1
                    /\ Put(id, tx)
                    /\ last' = [op |-> "request", execute |-> execute, route |-> route,
                                resp |-> DeferResponse(id, tx)]
                    /\ UNCHANGED calls
               [] route = "direct" ->
                    /\ nreq < MaxRequests
                    /\ nreq' = nreq + 1
                    /\ \E c \in Callers :
                          /\ FreeSlot(c)
                          /\ calls' = [calls EXCEPT ![c] =
                                [pc |-> "awaitSdk", kind |-> "direct", id |-> NoId,
                                 tx |-> tx]]
                    /\ last' = [op |-> "request", execute |-> execute, route |-> route]
                    /\ UNCHANGED <<pendingTransactions, evicted, submitted>>
               [] OTHER ->
                    /\ last' = [op |-> "request", execute |-> execute, route |-> route,
                                resp |-> [isError |-> TRUE]]
                    /\ UNCHANGED <<pendingTransactions, evicted, submitted, calls, nreq>>
          /\ UNCHANGED <<alive, proxyVars, env, signerAccount, now, nextSweep, ticks>>

(* ------------------------ submitSignedTransaction ---------------------- *)

\* the three ways a completion is called: the service method itself, the
\* submit-signed-transaction tool handler, and that handler behind the
\* adapter the server registers it with
Vias == {"service", "handler", "adapter"}

\* a service that checks the packet before it looks the id up
SubmitRouteValidatesFirst(id, packet, via) ==
    IF via = "adapter" /\ ~canExecuteTransaction(TRUE).canExecute
    THEN "adapter-read-only"
    ELSE IF via # "service" /\ PacketInvalid(packet) THEN "InvalidInput"
    ELSE IF PacketInvalid(packet) THEN "InvalidSignature"
    ELSE IF ~Has(id) THEN "NotFound"
    ELSE "sdk"

\* How far a submit-signed-transaction call gets before its first await:
\* the adapter's gate, then the tool handler's check of the packet, then the
\* service looks the id up, checks the packet, and calls the SDK.
SubmitRoute(id, packet, via) ==
    IF via = "adapter" /\ ~canExecuteTransaction(TRUE).canExecute
    THEN "adapter-read-only"
    ELSE IF via # "service" /\ PacketInvalid(packet) THEN "InvalidInput"
    ELSE IF ~Has(id) THEN "NotFound"
    ELSE IF PacketInvalid(packet) THEN "InvalidSignature"
    ELSE "sdk"

\* ids a caller may hold: handed out and still pending, or handed out earlier
\* (by the signing service, or by the proxy service through the adapter)
KnownIds == (DOMAIN pendingTransactions) \cup evicted \cup submitted
               \cup (DOMAIN proxyPending) \cup proxyHandled

SubmitSigned ==
    \E id \in KnownIds \cup {UnknownId}, packet \in Packets, via \in Vias :
      LET route == SubmitRoute(id, packet, via)
      IN  /\ IF route = "sdk"
             THEN \E c \in Callers :
                     /\ FreeSlot(c)
                     /\ calls' = [calls EXCEPT ![c] =
                           [pc |-> "awaitSdk", kind |-> "complete", id |-> id,
                            tx |-> pendingTransactions[id].transaction]]
             ELSE UNCHANGED calls
          /\ last' = [op |-> "submit", id |-> id, route |-> route]
          /\ UNCHANGED <<alive, proxyVars, env, signerAccount, now, nextSweep, ticks,
                         pendingTransactions, evicted, submitted, nreq>>

(* ------------------------- getPendingTransaction ---------------------- *)

\* a status query (getPendingTransaction, which the check-pending-transaction
\* tool calls) for an id the caller holds or made up
CheckPending ==
    \E id \in KnownIds \cup {UnknownId} :
      /\ last' = [op |-> "status", id |-> id, resp |-> getPendingTransaction(id)]
      /\ UNCHANGED <<alive, proxyVars, env, signerAccount, now, nextSweep, ticks,
                     pendingTransactions, calls, evicted, submitted, nreq>>

(* ---------------------------- get-stream-info -------------------------- *)

\* The path a get-stream-info request takes.  The tool object has no execute
\* property, so behind the adapter the gate is
\* canExecuteTransaction(undefined !== false); the handler itself only reads.
QueryRoute(adapted) ==
    IF adapted /\ ~canExecuteTransaction(TRUE).canExecute THEN "adapter-read-only"
    ELSE "served"

QueryRequest ==
    \E adapted \in BOOLEAN :
      /\ last' = [op |-> "query", adapted |-> adapted, route |-> QueryRoute(adapted)]
      /\ UNCHANGED <<alive, proxyVars, env, signerAccount, now, nextSweep, ticks,
                     pendingTransactions, calls, evicted, submitted, nreq>>

(* ----------------------------- SDK answers ----------------------------- *)

\* a response that loses the SDK's success flag
standardizeTransactionResponseNoSuccess(res) ==
    [hash |-> res.hash,
     version |-> IF res.detail THEN "7" ELSE "undefined",
     success |-> "undefined",
     vm_status |-> IF res.detail THEN "Executed successfully" ELSE "executed",
     gas_used |-> IF res.detail THEN "12" ELSE "0"]

\* standardizeTransactionResponse (client-signed completion and the service's
\* own direct path)
standardizeTransactionResponse(res) ==
    [hash |-> res.hash,
     version |-> IF res.detail THEN "7" ELSE "undefined",
     success |-> res.success,
     vm_status |-> IF res.detail THEN "Executed successfully" ELSE "executed",
     gas_used |-> IF res.detail THEN "12" ELSE "0"]

\* the result object handleTransactionSubmission builds on its direct path
DirectResponse(res) ==
    [hash |-> res.hash,
     version |-> IF res.detail THEN "7" ELSE "0",
     success |-> IF res.success # "false" THEN "true" ELSE "false",
     vm_status |-> IF res.detail THEN "Executed successfully" ELSE "executed",
     gas_used |-> IF res.detail THEN "12" ELSE "0"]

\* One of the two awaited SDK calls (the submit call, then waitForTransaction)
\* throws: the catch block logs and rethrows, and the entry of a client-signed
\* completion is left where it is.  Nothing runs between the two awaits, so
\* the call waits in one place for both.
SdkThrows(c) ==
    \E at \in {"SubmissionRejected", "ConfirmationFailed"} :
      /\ InFlight(c)
      /\ calls' = [calls EXCEPT ![c] = IdleCall]
      /\ last' = [op |-> "answer", call |-> calls[c].kind, id |-> calls[c].id,
                  outcome |-> at]
      /\ UNCHANGED <<alive, proxyVars, env, signerAccount, now, nextSweep, ticks,
                     pendingTransactions, evicted, submitted, nreq>>

\* both awaited SDK calls resolve: a client-signed completion deletes the
\* entry and returns the standardized response
SdkResolves(c) ==
    \E res \in SdkResults :
      /\ InFlight(c)
      /\ calls' = [calls EXCEPT ![c] = IdleCall]
      /\ IF calls[c].kind = "complete"
         THEN /\ pendingTransactions' = MapDelete(pendingTransactions, calls[c].id)
              /\ submitted' = submitted \cup {calls[c].id}
              /\ last' = [op |-> "answer", call |-> "complete", id |-> calls[c].id,
                          outcome |-> "returned", sdk |-> res,
                          resp |-> standardizeTransactionResponse(res)]
         ELSE /\ last' = [op |-> "answer", call |-> "direct", id |-> NoId,
                          outcome |-> "returned", sdk |-> res,
                          resp |-> DirectResponse(res)]
              /\ UNCHANGED <<pendingTransactions, submitted>>
      /\ UNCHANGED <<alive, proxyVars, env, signerAccount, now, nextSweep, ticks, evicted, nreq>>

(* ------------------------- clock and cleanup task ---------------------- *)

\* Date.now() advances; the interval timer is not overdue
Tick ==
    \E d \in TickSteps :
      /\ ticks < MaxTicks
      /\ now < nextSweep
      /\ now' = now + d
      /\ ticks' = ticks + 1
      /\ last' = [op |-> "tick"]
      /\ UNCHANGED <<alive, proxyVars, env, signerAccount, nextSweep, pendingTransactions, calls,
                     evicted, submitted, nreq>>

ExpiredIds == {id \in DOMAIN pendingTransactions :
                  IsExpired(pendingTransactions[id].timestamp, now)}

\* the setInterval callback of startCleanupTask
Sweep ==
    /\ now >= nextSweep
    /\ pendingTransactions' =
          [id \in (DOMAIN pendingTransactions) \ ExpiredIds |-> pendingTransactions[id]]
    /\ evicted' = evicted \cup ExpiredIds
    /\ nextSweep' = now + CLEANUP_INTERVAL
    /\ last' = [op |-> "sweep"]
    /\ UNCHANGED <<alive, proxyVars, env, signerAccount, now, ticks, calls, submitted, nreq>>

(* ------------------------------ the system ----------------------------- *)

Next ==
    \/ ToolRequest
    \/ SubmitSigned
    \/ CheckPending
    \/ QueryRequest
    \/ \E c \in Callers : SdkThrows(c)
    \/ \E c \in Callers : SdkResolves(c)
    \/ Tick
    \/ Sweep

Spec == Init /\ [][Next]_vars

\* the interval timer keeps firing
FairSpec == Init /\ [][Next]_vars /\ WF_vars(Sweep)

(* --------------------- a cleanup run that throws ----------------------- *)

\* The setInterval callback of startCleanupTask has no try/catch.  An
\* exception raised inside it (after some of the expired entries have been
\* deleted) is an uncaught exception; no 'uncaughtException' handler is
\* installed, so Node ends the process, and with it the interval timer and
\* the tool handlers.
SweepThrows ==
    \E done \in SUBSET ExpiredIds :
      /\ alive
      /\ now >= nextSweep
      /\ pendingTransactions' =
            [id \in (DOMAIN pendingTransactions) \ done |-> pendingTransactions[id]]
      /\ evicted' = evicted \cup done
      /\ alive' = FALSE
      /\ last' = [op |-> "sweep-threw"]
      /\ UNCHANGED <<proxyVars, env, signerAccount, now, nextSweep, ticks, calls,
                     submitted, nreq>>

\* the service while it runs, with cleanup runs that may throw
FaultNext ==
    \/ alive /\ ToolRequest
    \/ alive /\ SubmitSigned
    \/ alive /\ CheckPending
    \/ alive /\ QueryRequest
    \/ alive /\ \E c \in Callers : SdkThrows(c)
    \/ alive /\ \E c \in Callers : SdkResolves(c)
    \/ alive /\ Tick
    \/ alive /\ Sweep
    \/ SweepThrows

FaultSpec == Init /\ [][FaultNext]_vars

(* ----------------------- TransactionProxyService ----------------------- *)

\* 5 * 60 * 1000: the time a transaction waits for its signature
SIGNING_TIMEOUT == 300000
\* the period of the proxy's cleanup interval
PROXY_CLEANUP_INTERVAL == 60000

\* a delete that removes nothing
ProxyDeleteNothing(m, k) == m

\* pendingTransactions.delete of the proxy service
ProxyDelete(m, k) == [x \in (DOMAIN m) \ {k} |-> m[x]]

\* Map.has / Map.get on the proxy's pendingTransactions
ProxyHas(id) == id \in DOMAIN proxyPending

\* ids of the proxy a caller may hold
ProxyKnownIds == (DOMAIN proxyPending) \cup proxyHandled

\* getTransactionStatus
getTransactionStatus(id) ==
    IF ~ProxyHas(id) THEN [exists |-> FALSE, pendingSignature |-> FALSE]
    ELSE [exists |-> TRUE, pendingSignature |-> TRUE,
          createdAt |-> proxyPending[id].timestamp]

\* the resolver of a pending transaction is called with an outcome
CallResolver(rc, n, outcome) == [rc EXCEPT ![n] = Append(@, outcome)]

\* The adapted handler of a tool whose handler returned a transaction object
\* (one with .submit, .rawTransaction or .payload): the gate, then the
\* signing branch.  On the proxy branch submitTransaction stores the
\* transaction with its resolver under a new id, starts the transaction's
\* own timer and returns the id and the expiry time.
AdapterRequest ==
    \E r \in 1..MaxRandom :
      LET tx == BuiltTx(nreq + 1, FALSE)
          id == generateTransactionId(r)
          route == IF ~canExecuteTransaction(TRUE).canExecute
                   THEN "adapter-read-only" ELSE AdapterSigningBranch
      IN  /\ CASE route = "proxy" ->
                    /\ nreq < MaxRequests
                    /\ nreq' = nreq + 1
                    /\ proxyPending' =
                          MapSet(proxyPending, id,
                                 [transaction |-> tx, resolver |-> nreq + 1,
                                  timestamp |-> now])
                    /\ proxyTimers' = proxyTimers \cup
                          {[id |-> id, due |-> now + SIGNING_TIMEOUT, n |-> nreq + 1]}
                    /\ proxyHandled' = proxyHandled \ {id}
                    /\ last' = [op |-> "adapter-request", route |-> route,
                                resp |-> [transactionId |-> id,
                                          expiresAt |-> now + SIGNING_TIMEOUT]]
                    /\ UNCHANGED calls
               [] route = "direct" ->
                    /\ nreq < MaxRequests
                    /\ nreq' = nreq + 1
                    /\ \E c \in Callers :
                          /\ FreeSlot(c)
                          /\ calls' = [calls EXCEPT ![c] =
                                [pc |-> "awaitSdk", kind |-> "adapter-direct",
                                 id |-> NoId, tx |-> normalizeTransaction(tx)]]
                    /\ last' = [op |-> "adapter-request", route |-> route]
                    /\ UNCHANGED <<proxyPending, proxyTimers, proxyHandled>>
               [] OTHER ->
                    /\ last' = [op |-> "adapter-request", route |-> route,
                                resp |-> [isError |-> TRUE]]
                    /\ UNCHANGED <<proxyPending, proxyTimers, proxyHandled, calls, nreq>>
          /\ UNCHANGED <<alive, proxyNextSweep, resolverCalls, env, signerAccount,
                         now, nextSweep, ticks, pendingTransactions, evicted,
                         submitted>>

\* the service's signAndSubmitTransaction(result, true, signer), called by
\* the adapter's direct branch, answers: the adapter reports the hash, or
\* the error the call threw
AdapterDirectAnswers(c) ==
    \E outcome \in {"returned", "threw"} :
      /\ calls[c].kind = "adapter-direct"
      /\ calls' = [calls EXCEPT ![c] = IdleCall]
      /\ last' = [op |-> "adapter-answer", outcome |-> outcome,
                  resp |-> [isError |-> (outcome = "threw")]]
      /\ UNCHANGED <<alive, proxyVars, env, signerAccount, now, nextSweep, ticks,
                     pendingTransactions, evicted, submitted, nreq>>

\* submitSignedTransaction of the proxy service
ProxySubmitSigned ==
    \E id \in ProxyKnownIds \cup {UnknownId} :
      /\ IF ~ProxyHas(id)
         THEN /\ last' = [op |-> "proxy-submit", id |-> id,
                          resp |-> [success |-> FALSE]]
              /\ UNCHANGED <<proxyPending, resolverCalls, proxyHandled>>
         ELSE /\ proxyPending' = ProxyDelete(proxyPending, id)
              /\ resolverCalls' =
                    CallResolver(resolverCalls, proxyPending[id].resolver, "success")
              /\ proxyHandled' = proxyHandled \cup {id}
              /\ last' = [op |-> "proxy-submit", id |-> id,
                          resp |-> [success |-> TRUE]]
      /\ UNCHANGED <<alive, proxyTimers, proxyNextSweep, env, signerAccount, now,
                     nextSweep, ticks, pendingTransactions, calls, evicted,
                     submitted, nreq>>

\* a call of getTransactionStatus
ProxyGetStatus ==
    \E id \in ProxyKnownIds \cup {UnknownId} :
      /\ last' = [op |-> "proxy-status", id |-> id, resp |-> getTransactionStatus(id)]
      /\ UNCHANGED <<alive, proxyVars, env, signerAccount, now, nextSweep, ticks,
                     pendingTransactions, calls, evicted, submitted, nreq>>

\* the setTimeout callback of one submitTransaction call
ProxyTimerFires ==
    \E t \in proxyTimers :
      /\ now >= t.due
      /\ proxyTimers' = proxyTimers \ {t}
      /\ IF ProxyHas(t.id)
         THEN /\ resolverCalls' =
                    CallResolver(resolverCalls, proxyPending[t.id].resolver, "timeout")
              /\ proxyPending' = ProxyDelete(proxyPending, t.id)
              /\ proxyHandled' = proxyHandled \cup {t.id}
         ELSE UNCHANGED <<proxyPending, resolverCalls, proxyHandled>>
      /\ last' = [op |-> "proxy-timer", id |-> t.id]
      /\ UNCHANGED <<alive, proxyNextSweep, env, signerAccount, now, nextSweep,
                     ticks, pendingTransactions, calls, evicted, submitted, nreq>>

ProxyExpiredIds == {id \in DOMAIN proxyPending :
                       now - proxyPending[id].timestamp > SIGNING_TIMEOUT}

\* the resolvers of a set of entries are each called with the time-out
RECURSIVE TimeOutAll(_, _)
TimeOutAll(rc, ids) ==
    IF ids = {} THEN rc
    ELSE LET id == CHOOSE x \in ids : TRUE
         IN  TimeOutAll(CallResolver(rc, proxyPending[id].resolver, "timeout"),
                        ids \ {id})

\* the setInterval callback of the proxy's startCleanupTask
ProxySweep ==
    /\ now >= proxyNextSweep
    /\ resolverCalls' = TimeOutAll(resolverCalls, ProxyExpiredIds)
    /\ proxyPending' =
          [id \in (DOMAIN proxyPending) \ ProxyExpiredIds |-> proxyPending[id]]
    /\ proxyHandled' = proxyHandled \cup ProxyExpiredIds
    /\ proxyNextSweep' = now + PROXY_CLEANUP_INTERVAL
    /\ last' = [op |-> "proxy-sweep"]
    /\ UNCHANGED <<alive, proxyTimers, env, signerAccount, now, nextSweep, ticks,
                   pendingTransactions, calls, evicted, submitted, nreq>>

\* the server with tools whose handlers return transaction objects: the
\* adapter hands them to the proxy service, the caller comes back with the
\* id to the proxy service or to the registered submit-signed-transaction tool
ProxyNext ==
    \/ AdapterRequest
    \/ \E c \in Callers : AdapterDirectAnswers(c)
    \/ ProxySubmitSigned
    \/ ProxyGetStatus
    \/ ProxyTimerFires
    \/ ProxySweep
    \/ SubmitSigned
    \/ Tick
    \/ Sweep

ProxySpec == Init /\ [][ProxyNext]_vars

(* ------------------- the configuration on its own ---------------------- *)

\* the process starts with any of the environments above
ConfigInit ==
    /\ env \in ConfigEnvs
    /\ signerAccount = initSignerAccount(env)
    /\ now = 0
    /\ nextSweep = CLEANUP_INTERVAL
    /\ ticks = 0
    /\ pendingTransactions = <<>>
    /\ calls = [c \in Callers |-> IdleCall]
    /\ last = [op |-> "start"]
    /\ evicted = {}
    /\ submitted = {}
    /\ nreq = 0
    /\ alive = TRUE
    /\ proxyPending = <<>>
    /\ proxyTimers = {}
    /\ proxyNextSweep = CLEANUP_INTERVAL
    /\ resolverCalls = [n \in 1..MaxRequests |-> <<>>]
    /\ proxyHandled = {}

\* a call of getTransactionExecutorConfig
ReadConfig ==
    /\ last' = [op |-> "config", resp |-> getTransactionExecutorConfig(env)]
    /\ UNCHANGED <<alive, proxyVars, env, signerAccount, now, nextSweep, ticks,
                   pendingTransactions, calls, evicted, submitted, nreq>>

ConfigNext == ReadConfig

ConfigSpec == ConfigInit /\ [][ConfigNext]_vars

(* ------- the second ClientProvidedSigningService (older copy) ---------- *)

\* services/TransactionSigningService.ts declares, after the interface, a
\* second class ClientProvidedSigningService.  It stores the transaction as
\* it is given, does not check the packet, and when its first submission
\* throws it tries once more through transaction.submit.simple.

\* signAndSubmitTransaction(transaction, false) of the older copy
LegacyPut ==
    \E w \in BOOLEAN, r \in 1..MaxRandom :
      LET tx == BuiltTx(nreq + 1, w)
          id == generateTransactionId(r)
      IN  /\ nreq < MaxRequests
          /\ nreq' = nreq + 1
          /\ pendingTransactions' =
                MapSet(pendingTransactions, id, [transaction |-> tx, timestamp |-> now])
          /\ evicted' = evicted \ {id}
          /\ submitted' = submitted \ {id}
          /\ last' = [op |-> "request", execute |-> FALSE, route |-> "defer",
                      resp |-> [transactionId |-> id, rawTxn |-> tx,
                                clientSigningRequired |-> TRUE]]
          /\ UNCHANGED <<alive, proxyVars, env, signerAccount, now, nextSweep, ticks, calls>>

\* submitSignedTransaction of the older copy, up to its first await
LegacySubmitSigned ==
    \E id \in KnownIds \cup {UnknownId}, packet \in Packets :
      /\ IF Has(id)
         THEN /\ \E c \in Callers :
                    /\ FreeSlot(c)
                    /\ calls' = [calls EXCEPT ![c] =
                          [pc |-> "awaitFirst", kind |-> "complete", id |-> id,
                           tx |-> pendingTransactions[id].transaction]]
              /\ last' = [op |-> "submit", id |-> id, route |-> "sdk"]
         ELSE /\ UNCHANGED calls
              /\ last' = [op |-> "submit", id |-> id, route |-> "NotFound"]
      /\ UNCHANGED <<alive, proxyVars, env, signerAccount, now, nextSweep, ticks,
                     pendingTransactions, evicted, submitted, nreq>>

\* the awaited submission (the first one, or the one of the last attempt)
\* resolves: the entry is deleted and the SDK's response returned
LegacyResolves(c) ==
    /\ calls[c].pc \in {"awaitFirst", "awaitFinal"}
    /\ pendingTransactions' = MapDelete(pendingTransactions, calls[c].id)
    /\ submitted' = submitted \cup {calls[c].id}
    /\ calls' = [calls EXCEPT ![c] = IdleCall]
    /\ last' = [op |-> "answer", call |-> "complete", id |-> calls[c].id,
                outcome |-> "returned", attempt |-> calls[c].pc]
    /\ UNCHANGED <<alive, proxyVars, env, signerAccount, now, nextSweep, ticks, evicted, nreq>>

\* The first submission throws.  The catch block makes its last attempt:
\* require('@aptos-labs/ts-sdk') either loads the SDK, and then
\* transaction.submit.simple is called and awaited, or throws (no require in
\* an ES module), and then the first error is rethrown.
LegacyFirstThrows(c) ==
    \E requireLoads \in BOOLEAN :
      /\ calls[c].pc = "awaitFirst"
      /\ IF requireLoads
         THEN /\ calls' = [calls EXCEPT ![c].pc = "awaitFinal"]
              /\ last' = [op |-> "retry", id |-> calls[c].id]
         ELSE /\ calls' = [calls EXCEPT ![c] = IdleCall]
              /\ last' = [op |-> "answer", call |-> "complete", id |-> calls[c].id,
                          outcome |-> "SubmissionRejected", attempt |-> "awaitFirst"]
      /\ UNCHANGED <<alive, proxyVars, env, signerAccount, now, nextSweep, ticks,
                     pendingTransactions, evicted, submitted, nreq>>

\* the submission of the last attempt throws too: the first error is rethrown
LegacyFinalThrows(c) ==
    /\ calls[c].pc = "awaitFinal"
    /\ calls' = [calls EXCEPT ![c] = IdleCall]
    /\ last' = [op |-> "answer", call |-> "complete", id |-> calls[c].id,
                outcome |-> "SubmissionRejected", attempt |-> "awaitFinal"]
    /\ UNCHANGED <<alive, proxyVars, env, signerAccount, now, nextSweep, ticks,
                   pendingTransactions, evicted, submitted, nreq>>

LegacyNext ==
    \/ LegacyPut
    \/ LegacySubmitSigned
    \/ \E c \in Callers : LegacyResolves(c)
    \/ \E c \in Callers : LegacyFirstThrows(c)
    \/ \E c \in Callers : LegacyFinalThrows(c)
    \/ Tick
    \/ Sweep

LegacySpec == Init /\ [][LegacyNext]_vars

(* ------------------------------ properties ----------------------------- *)

\* the disposition the configuration selects
ReadOnly == getTransactionExecutorConfig(env).readOnlyMode
ClientSign == ~ReadOnly /\ getTransactionExecutorConfig(env).signingMode = "client"

\* the callers suspended on the SDK for a client-signed completion of id
Completing(id) == {c \in Callers : calls[c].kind = "complete" /\ calls[c].id = id}

\* the routes on which a tool request or a completion is turned away
Refusals == {"adapter-read-only", "read-only", "length-mismatch"}

\* C1: for one transaction id the SDK submission is invoked at most once: two
\* completions of the same id never both get past the lookup to the SDK.
C1_AtMostOnceSubmission ==
    \A id \in KnownIds : Cardinality(Completing(id)) <= 1

\* C2: the outcomes Submitted and Expired exclude each other: no id has both
\* been removed by the cleanup task and had a completion return a result.
C2_SubmittedExcludesExpired == evicted \cap submitted = {}

\* C3: in read-only mode a tool request with execute = true is turned away
\* before any side effect: the answer is an error (the read-only one, or the
\* array-length error batch-create-streams raises before it looks at the
\* mode), no transaction is built, the pending map and the calls suspended
\* on the SDK stay as they were.
C3_ReadOnlyRefusesExecute ==
    [][ (last'.op = "request" /\ last'.execute /\ ReadOnly)
          => /\ last'.route \in Refusals
             /\ last'.resp = [isError |-> TRUE]
             /\ UNCHANGED <<pendingTransactions, calls, nreq, evicted, submitted>> ]_vars

C3_Witness ==
    /\ ReadOnly
    /\ last.op = "request" /\ last.execute /\ last.route = "read-only"
    /\ pendingTransactions # <<>>

\* C4: in read-only mode no sequence of operations reaches the SDK: no call
\* is ever suspended on an SDK submission.
C4_ReadOnlyNeverSubmits ==
    ReadOnly => \A c \in Callers : ~InFlight(c)

\* C5: once a completion of an id has returned a result, the id is gone from
\* the pending map, so every later completion of it stops at the lookup
\* (the service answers not-found) and none reaches the SDK.
C5_DoubleCompletion ==
    /\ \A id \in submitted :
          /\ ~Has(id)
          /\ \A packet \in Packets :
                /\ SubmitRoute(id, packet, "service") = "NotFound"
                /\ \A via \in Vias : SubmitRoute(id, packet, via) # "sdk"
    /\ (last.op = "submit" /\ last.id \in submitted) => last.route # "sdk"

C5_Witness ==
    /\ last.op = "submit" /\ last.route = "NotFound"
    /\ last.id \in submitted

\* C6: a completion the SDK rejects consumes the entry: after the rejection
\* the id is no longer in the pending map.
C6_RejectionConsumesEntry ==
    (last.op = "answer" /\ last.call = "complete"
       /\ last.outcome = "SubmissionRejected") => ~Has(last.id)

\* the values the clock can take, and the ids a put can return
ClockValues == {k * MAX_TX_AGE : k \in 0..MaxTicks}
IssuableIds == {<<t, r>> : t \in ClockValues, r \in 1..MaxRandom}
\* the ids that can be older than the maximum age while the clock runs
AgingIds == {id \in IssuableIds : \E t \in ClockValues : t - id[1] > MAX_TX_AGE}

\* C7: an entry that is older than the maximum age is removed by the cleanup
\* task's next run, so that its status is not-found, and an id that is too
\* old and not in the map never comes back into it.
C7_ExpiryMonotone ==
    /\ \A id \in AgingIds :
          (Has(id) /\ now - id[1] > MAX_TX_AGE) ~> ~getPendingTransaction(id).found
    /\ [][ \A id \in IssuableIds :
              (~Has(id) /\ now - id[1] > MAX_TX_AGE)
                 => ~getPendingTransaction(id).found' ]_vars

C7_Witness ==
    /\ last.op = "sweep"
    /\ \E id \in evicted : now - id[1] > MAX_TX_AGE /\ ~getPendingTransaction(id).found
    /\ pendingTransactions # <<>>

\* C8: a completion of an id that is not in the pending map answers not-found
\* (which is not the answer a bad packet gets), calls no SDK and leaves the
\* map as it was; through the tool a bad packet is turned away even earlier.
C8_AbsentIdNotFound ==
    [][ (last'.op = "submit" /\ ~Has(last'.id))
          => /\ last'.route \in {"NotFound", "InvalidInput", "adapter-read-only"}
             /\ \A packet \in Packets :
                   SubmitRoute(last'.id, packet, "service") = "NotFound"
             /\ UNCHANGED <<pendingTransactions, calls, evicted, submitted>> ]_vars

C8_Witness ==
    /\ last.op = "submit" /\ last.route = "NotFound"
    /\ last.id \in evicted /\ ~Has(last.id)
    /\ pendingTransactions # <<>>

\* C9: a transaction is signed with the server's key only if the operator
\* asked for direct signing (SIGNING_MODE is direct).
C9_DirectNeedsPreference ==
    (\E c \in Callers : calls[c].kind = "direct") => env.SIGNING_MODE = "direct"

\* C10: under client signing the execute flag changes nothing: a request
\* that passes validation is deferred (stored, unsigned transaction and id
\* returned) whatever execute is.
C10_ExecuteIsNoOp ==
    (ClientSign /\ last.op = "request" /\ last.route # "length-mismatch")
       => last.route = "defer"

\* the configuration asks for direct signing and a signer account exists
DirectSign == /\ ~ReadOnly
              /\ getTransactionExecutorConfig(env).signingMode = "direct"
              /\ signerAccount # "none"

\* C11: outside read-only mode a request with execute = false that passes
\* validation is always deferred, also when the server could sign: the
\* transaction is stored under the returned id, the answer carries that id
\* and clientSigningRequired, and no call to the SDK is started.
C11_NoExecuteAlwaysDefers ==
    [][ (last'.op = "request" /\ ~last'.execute /\ ~ReadOnly
           /\ last'.route # "length-mismatch")
          => /\ last'.route = "defer"
             /\ last'.resp.clientSigningRequired
             /\ last'.resp.transactionId \in DOMAIN pendingTransactions'
             /\ pendingTransactions'[last'.resp.transactionId].transaction
                   = last'.resp.rawTxn
             /\ UNCHANGED calls ]_vars

C11_Witness ==
    /\ DirectSign
    /\ last.op = "request" /\ ~last.execute /\ last.route = "defer"
    /\ Has(last.resp.transactionId)

\* C12: when direct signing is asked for and no usable key resolves (none
\* configured, or one that does not parse), the selected signing mode is
\* client: an execute = true request that passes validation is deferred, and
\* nothing is answered with an error for want of a key.
C12_FallbackDegradation ==
    (env.SIGNING_MODE = "direct" /\ ~ReadOnly /\ signerAccount = "none")
       => /\ getTransactionExecutorConfig(env).signingMode = "client"
          /\ AdapterSigningBranch # "direct-signing-failed"
          /\ (last.op = "request" /\ last.execute)
                => last.route \in {"defer", "length-mismatch"}

\* C13: when the SDK confirms a client-signed completion as successful, the
\* call returns a result with success = true and the entry is already
\* deleted when it returns; a status query for the id made after that (and
\* before any later put returns the id again) answers found = false.
C13_SignatureRoundTrip ==
    /\ (last.op = "answer" /\ last.call = "complete" /\ last.outcome = "returned"
          /\ last.sdk.success = "true")
         => /\ last.resp.success = "true"
            /\ last.resp.hash = last.sdk.hash
            /\ last.id \in submitted
            /\ ~Has(last.id)
            /\ ~getPendingTransaction(last.id).found
    /\ (last.op = "status" /\ last.id \in submitted) => ~last.resp.found

C13_Witness ==
    /\ last.op = "status" /\ last.id \in submitted /\ ~last.resp.found
    /\ last.id \notin evicted

\* C14: a packet with an empty signature, public key or sender is turned
\* away (by the service as an invalid signature, by the tool before that as
\* invalid input) without a call to the SDK and without touching the entry:
\* the id stays pending and a well-formed packet for it still gets to the SDK.
C14_BadPacketKeepsEntry ==
    [][ /\ \A id \in DOMAIN pendingTransactions :
              \A packet \in Packets \ {GoodPacket} :
                 /\ SubmitRoute(id, packet, "service") = "InvalidSignature"
                 /\ SubmitRoute(id, packet, "handler") = "InvalidInput"
        /\ (last'.op = "submit" /\ Has(last'.id)
              /\ last'.route \in {"InvalidSignature", "InvalidInput"})
             => /\ UNCHANGED <<pendingTransactions, calls, evicted, submitted>>
                /\ SubmitRoute(last'.id, GoodPacket, "service") = "sdk" ]_vars

C14_Witness ==
    /\ last.op = "submit" /\ last.route = "InvalidSignature"
    /\ Has(last.id)
    /\ SubmitRoute(last.id, GoodPacket, "service") = "sdk"

C16_BoundedWait ==
    \A c \in Callers : InFlight(c) ~> ~InFlight(c)

\* C17: the id a put returns is not the key of an entry that is pending at
\* that moment, and a put leaves every entry that was pending as it was.
C17_PutUniqueness ==
    [][ (last'.op = "request" /\ last'.route = "defer")
          => /\ last'.resp.transactionId \notin DOMAIN pendingTransactions
             /\ \A id \in DOMAIN pendingTransactions :
                   /\ id \in DOMAIN pendingTransactions'
                   /\ pendingTransactions'[id] = pendingTransactions[id] ]_vars

\* C18: an entry leaves the pending map only when a completion of its id
\* returns a result or when the cleanup task finds it older than the maximum
\* age; no other step removes or replaces it.
C18_RemovalOnlyBySuccessOrEviction ==
    [][ \A id \in DOMAIN pendingTransactions :
           (id \notin DOMAIN pendingTransactions'
              \/ pendingTransactions'[id] # pendingTransactions[id])
             => \/ /\ last'.op = "answer" /\ last'.call = "complete"
                   /\ last'.outcome = "returned" /\ last'.id = id
                \/ /\ last'.op = "sweep"
                   /\ now - pendingTransactions[id].timestamp > MAX_TX_AGE ]_vars

\* C19: a status query changes nothing: the pending map and the suspended
\* calls stay as they were; it answers found exactly when the id is in the
\* map, and then with the stored transaction and an age of the current time
\* minus the time the entry was stored.
C19_StatusReadOnly ==
    [][ last'.op = "status"
          => /\ UNCHANGED <<pendingTransactions, calls, evicted, submitted, now>>
             /\ last'.resp.found <=> Has(last'.id)
             /\ Has(last'.id)
                  => /\ last'.resp.age = now - pendingTransactions[last'.id].timestamp
                     /\ last'.resp.transaction
                           = pendingTransactions[last'.id].transaction ]_vars

C19_Witness ==
    /\ last.op = "status" /\ last.resp.found
    /\ Has(last.id) /\ pendingTransactions[last.id].timestamp > 0
    /\ last.resp.age > 0

C21_ReadOnlyServesQueries ==
    (ReadOnly /\ last.op = "query" /\ last.adapted) => last.route = "served"

\* C22: the removal of an entry comes before its submission: while the SDK
\* submission for an id is in flight the id is not in the pending map, so a
\* status query or a second completion made in that time answers not-found.
C22_TakePrecedesSubmission ==
    \A c \in Callers :
       calls[c].kind = "complete"
          => /\ ~Has(calls[c].id)
             /\ ~getPendingTransaction(calls[c].id).found
             /\ SubmitRoute(calls[c].id, GoodPacket, "service") = "NotFound"

\* C23: the packet is checked before the id is looked up: a completion with
\* a malformed packet is answered as an invalid signature whether or not the
\* id is pending, also for an id that is not known at all.
C23_ValidationPrecedesLookup ==
    \A id \in KnownIds \cup {UnknownId} :
       \A packet \in Packets \ {GoodPacket} :
          SubmitRoute(id, packet, "service") = "InvalidSignature"

\* C24: the transaction a completion of an id hands to the SDK is the one
\* the id stands for: while the completion is in flight, the entry the id is
\* pending under (if it still is) holds that very transaction, so that the
\* delete at the end of the completion removes the entry of the transaction
\* that was submitted and of no other.
C24_TransactionIdentity ==
    \A c \in Callers :
       (calls[c].kind = "complete" /\ Has(calls[c].id))
          => pendingTransactions[calls[c].id].transaction = calls[c].tx

\* the spellings of SIGNING_MODE that ask for direct signing
DirectSpellings == {"direct", "DIRECT", "Direct"}

\* C25: the configuration is a function of the three variables: it reports
\* read-only exactly when READ_ONLY_MODE is "true", and signing mode direct
\* exactly when it is not read-only, SIGNING_MODE is direct in any spelling
\* and a private key is configured; in every other case it reports client.
C25_ConfigFunction ==
    last.op = "config"
       => /\ last.resp.readOnlyMode <=> (env.READ_ONLY_MODE = "true")
          /\ last.resp.signingMode = "direct"
                <=> /\ env.READ_ONLY_MODE # "true"
                    /\ env.SIGNING_MODE \in DirectSpellings
                    /\ env.APTOS_PRIVATE_KEY \in {"valid", "malformed"}
          /\ last.resp.signingMode # "direct" => last.resp.signingMode = "client"

C25_Witness ==
    /\ last.op = "config"
    /\ env.SIGNING_MODE = "DIRECT" /\ env.READ_ONLY_MODE = "unset"
    /\ last.resp.signingMode = "direct"

\* C26: a cleanup run that throws is an isolated failure: after it the
\* process is still running, so the interval timer fires again, later runs
\* evict what has expired, and requests are still served.
C26_SweepFailureIsolated ==
    last.op = "sweep-threw" => alive

\* C27: the cleanup task removes only entries that are older than the
\* maximum age: an entry whose age is at most the maximum age is still in
\* the map after a cleanup run, unchanged, and a well-formed completion of
\* its id still gets to the SDK; whatever a run removes was older.
C27_NoPrematureEviction ==
    [][ last'.op = "sweep"
          => /\ \A id \in DOMAIN pendingTransactions :
                   now - pendingTransactions[id].timestamp <= MAX_TX_AGE
                      => /\ id \in DOMAIN pendingTransactions'
                         /\ pendingTransactions'[id] = pendingTransactions[id]
                         /\ SubmitRoute(id, GoodPacket, "service")' = "sdk"
             /\ \A id \in (DOMAIN pendingTransactions) \ (DOMAIN pendingTransactions') :
                   now - pendingTransactions[id].timestamp > MAX_TX_AGE ]_vars

C27_Witness ==
    /\ last.op = "sweep"
    /\ evicted # {}
    /\ \E id \in DOMAIN pendingTransactions :
          now - pendingTransactions[id].timestamp = MAX_TX_AGE

\* C28: the direct-signing path does not touch the pending map: a request
\* with execute = true that is signed with the server's account starts an
\* SDK call and stores nothing, and when that call answers, with a result or
\* with the SDK's error, every entry is as it was; a rejected submission is
\* reported as an error and is not turned into a pending entry.
C28_DirectPathLeavesStore ==
    [][ /\ (last'.op = "request" /\ last'.execute /\ signerAccount # "none"
               /\ last'.route \notin Refusals)
              => /\ last'.route = "direct"
                 /\ UNCHANGED <<pendingTransactions, evicted, submitted>>
                 /\ \E c \in Callers : ~InFlight(c) /\ calls'[c].kind = "direct"
        /\ (last'.op = "answer" /\ last'.call = "direct")
              => /\ UNCHANGED <<pendingTransactions, evicted, submitted>>
                 /\ last'.outcome \in {"returned", "SubmissionRejected",
                                       "ConfirmationFailed"} ]_vars

C28_Witness ==
    /\ last.op = "answer" /\ last.call = "direct"
    /\ last.outcome = "SubmissionRejected"
    /\ pendingTransactions # <<>>

\* C29: in the proxy service the resolver of a transaction is called at
\* most once, by submitSignedTransaction, by the transaction's own timer or
\* by the cleanup run: never with success and with the time-out both; and
\* once an id has been handled (and until a later submitTransaction returns
\* it again) its status says it does not exist and a submitSignedTransaction
\* for it answers success = false.
C29_ResolverAtMostOnce ==
    [][ /\ \A n \in 1..MaxRequests : Len(resolverCalls'[n]) <= 1
        /\ \A id \in proxyHandled' :
              /\ id \notin DOMAIN proxyPending'
              /\ ~getTransactionStatus(id).exists'
        /\ (last'.op = "proxy-submit" /\ last'.id \in proxyHandled)
              => ~last'.resp.success
        /\ (last'.op = "proxy-status" /\ last'.id \in proxyHandled)
              => ~last'.resp.exists ]_vars

C29_Witness ==
    /\ last.op = "proxy-submit" /\ ~last.resp.success
    /\ last.id \in proxyHandled
    /\ \E n \in 1..MaxRequests : resolverCalls[n] = <<"timeout">>
    /\ \E n \in 1..MaxRequests : resolverCalls[n] = <<"success">>

\* C30: an id the adapter's client-signing path handed out, with the advice
\* to complete it with the submit-signed-transaction tool, is found by that
\* tool while it has not expired.
C30_ProxyIdResolvable ==
    (/\ last.op = "submit"
     /\ last.id \in DOMAIN proxyPending
     /\ last.route \notin {"InvalidInput", "adapter-read-only"})
       => (now < proxyPending[last.id].timestamp + SIGNING_TIMEOUT
             => last.route = "sdk")

====
